---- MODULE Spec2Model ----
(***************************************************************************)
(* A model of the ADPP auction simulation utilities:                       *)
(*   _pricing_utils.py : opt (discrete revenue optimum), dict_part         *)
(*   _run_auctions.py  : run_auctions (sequential runner, checkpoints)     *)
(*   simulations.py    : simulate_value_dists, simulate_bids               *)
(* Keyed collections (Python dicts) are sequences of <<key, value>> pairs  *)
(* in insertion order.  Bids are non-negative integers.                    *)
(***************************************************************************)
EXTENDS Integers, Sequences, FiniteSets, TLC

\* ------------------------------------------------------------------ bounds
MaxBidders == 4
MaxBid == 4
MaxKeys == 3        \* size of the dict given to dict_part
MaxSeed == 2        \* random_seed ranges over 1..MaxSeed
PropDen == 4        \* prop ranges over 1/PropDen .. (PropDen-1)/PropDen
RngBits == 4        \* the shared generator has 2^RngBits states
MaxRounds == 25     \* num_rounds of a single invocation of run_auctions
MaxPairRounds == 10 \* num_rounds of two concurrent invocations
MaxN == 2           \* N, max_N and max_N_train of the simulations
MaxUpper == 3       \* upper of the common support; lower is 1

VARIABLES
    opt_pc,      \* "ready" before the call of opt, "done" after it
    opt_bids,    \* the argument of opt: a dict bidder -> bid
    opt_ret,     \* what the call produced (and the locals that produced it)
    part_input,  \* input_dict, given to every call of dict_part
    part_prop,   \* prop, as the numerator of part_prop / PropDen
    rng_state,   \* the state of the module-level generator of `random`
    part_calls,  \* per thread: the locals of its call of dict_part
    online_initialization, \* the pre-generated rounds given to run_auctions
    locks,       \* per lock: the invocation holding it, 0 when free
    files,       \* per checkpoint file name: what is on storage
    killed,      \* the program was terminated from outside
    runs,        \* per invocation of run_auctions: its arguments and locals
    sim          \* a call of simulate_value_dists or simulate_bids

opt_vars == <<opt_pc, opt_bids, opt_ret>>
part_vars == <<part_input, part_prop, rng_state, part_calls>>
run_vars == <<online_initialization, locks, files, killed, runs>>
sim_vars == <<sim>>

\* ------------------------------------------------------------ dict helpers
Range(s) == {s[i] : i \in 1..Len(s)}
Keys(d) == {d[i][1] : i \in 1..Len(d)}
\* d[key] of a dict
Lookup(d, key) == d[CHOOSE i \in 1..Len(d) : d[i][1] = key][2]
\* the dicts with keys 1..n (inserted in that order) and values in vals
DictsOver(n, vals) == {[i \in 1..n |-> <<i, f[i]>>] : f \in [1..n -> vals]}

\* =================================================================== opt
\* sorted(..., key = item[1], reverse = True) is stable: items of equal bid
\* keep their insertion order.
RECURSIVE InsertDesc(_, _)
InsertDesc(s, x) ==
    IF s = <<>> THEN <<x>>
    ELSE IF Head(s)[2] >= x[2] THEN <<Head(s)>> \o InsertDesc(Tail(s), x)
    ELSE <<x>> \o s

RECURSIVE SortedUpTo(_, _)
SortedUpTo(d, n) ==
    IF n = 0 THEN <<>> ELSE InsertDesc(SortedUpTo(d, n - 1), d[n])

sorted_bids(bids) == SortedUpTo(bids, Len(bids))

RevenueAtIndex0(index, bid) == index * bid
\* (index + 1) * bid, index counted from 0
RevenueAt(index, bid) == (index + 1) * bid

\* revenues, in the order of sorted_bids: <<bidder, revenue>>
revenues(bids) ==
    LET s == sorted_bids(bids)
    IN  [k \in 1..Len(s) |-> <<s[k][1], RevenueAt(k - 1, s[k][2])>>]

BetterLast(candidate, best) == candidate >= best
\* max(iterable, key = f) keeps the first of the maximal items
Better(candidate, best) == candidate > best

\* the position max() ends with after scanning positions 1..n of rev
RECURSIVE MaxScan(_, _)
MaxScan(rev, n) ==
    IF n = 1 THEN 1
    ELSE LET b == MaxScan(rev, n - 1)
         IN  IF Better(rev[n][2], rev[b][2]) THEN n ELSE b

\* opt(bids): the locals and the returned price; max() of an empty dict
\* raises ValueError
opt(bids) ==
    IF Len(bids) = 0
    THEN [status |-> "ValueError", price |-> 0, max_bidder |-> 0, rank |-> 0]
    ELSE LET rev == revenues(bids)
             k == MaxScan(rev, Len(rev))
             max_bidder == rev[k][1]
         IN  [status |-> "ok", price |-> Lookup(bids, max_bidder),
              max_bidder |-> max_bidder, rank |-> k]

OptInit ==
    /\ opt_pc = "ready"
    /\ opt_bids \in UNION {DictsOver(n, 0..MaxBid) : n \in 0..MaxBidders}
    /\ opt_ret = [status |-> "none", price |-> 0, max_bidder |-> 0, rank |-> 0]

CallOpt ==
    /\ opt_pc = "ready"
    /\ opt_ret' = opt(opt_bids)
    /\ opt_pc' = "done"
    /\ UNCHANGED <<opt_bids, part_vars, run_vars, sim_vars>>


\* ============================================================= dict_part
Threads == {1, 2}
PartValues == {7, 9}

RECURSIVE Pow2(_)
Pow2(k) == IF k = 0 THEN 1 ELSE 2 * Pow2(k - 1)

\* int.bit_length()
RECURSIVE BitLength(_)
BitLength(n) == IF n = 0 THEN 0 ELSE 1 + BitLength(n \div 2)

\* The generator of `random` (a Mersenne Twister) is deterministic: seed(a)
\* sets its state from a alone and every getrandbits call advances it.  It
\* is modelled by a full-period congruential generator on RngBits bits.
RngSeed(a) == a % Pow2(RngBits)
RngAdvance(state) == (5 * state + 3) % Pow2(RngBits)
\* getrandbits(k) read from the advanced state: its k leading bits
RngOutput(state, k) == state \div Pow2(RngBits - k)

\* int(len(keys) * prop)
Dict1Size(n, prop_num) == (n * prop_num) \div PropDen

\* pool[j] = pool[n - i - 1] of random.sample (positions from 1; m = n - i)
PoolAfterPick(pool, j, m) == [pool EXCEPT ![j] = pool[m]]

\* {key: input_dict[key] for key in key_list}: a repeated key keeps its
\* first position
RECURSIVE DictOfKeys(_, _)
DictOfKeys(input_dict, key_list) ==
    IF key_list = <<>> THEN <<>>
    ELSE LET n == Len(key_list)
             front == DictOfKeys(input_dict, SubSeq(key_list, 1, n - 1))
             key == key_list[n]
         IN  IF key \in Keys(front) THEN front
             ELSE Append(front, <<key, Lookup(input_dict, key)>>)

Dict2All(input_dict, dict1_keys) == input_dict
\* {key: input_dict[key] for key in keys if key not in dict1_keys}
Dict2Of(input_dict, dict1_keys) ==
    LET Rest(item) == item[1] \notin Range(dict1_keys)
    IN  SelectSeq(input_dict, Rest)

KeyList(input_dict) == [i \in 1..Len(input_dict) |-> input_dict[i][1]]

\* random.sample(keys, k) run without interruption from generator state
\* `state`, with `picked` already chosen: the list of sampled keys
RECURSIVE SampleRest(_, _, _, _)
SampleRest(state, pool, picked, k) ==
    IF Len(picked) = k THEN picked
    ELSE LET m == Len(pool) - Len(picked)
             next == RngAdvance(state)
             r == RngOutput(next, BitLength(m))
         IN  IF r >= m THEN SampleRest(next, pool, picked, k)
             ELSE SampleRest(next, PoolAfterPick(pool, r + 1, m),
                             Append(picked, pool[r + 1]), k)

\* dict_part(input_dict, random_seed, prop) run without interruption
dict_part(input_dict, random_seed, prop_num) ==
    LET keys == KeyList(input_dict)
        dict1_keys == SampleRest(RngSeed(random_seed), keys, <<>>,
                                 Dict1Size(Len(keys), prop_num))
    IN  <<DictOfKeys(input_dict, dict1_keys), Dict2Of(input_dict, dict1_keys)>>

NoCall(seed) ==
    [pc |-> "ready", random_seed |-> seed, dict1_size |-> 0, pool |-> <<>>,
     dict1_keys |-> <<>>, ret |-> <<>>]

PartInit ==
    /\ part_input \in UNION {DictsOver(n, PartValues) : n \in 0..MaxKeys}
    /\ part_prop \in 1..(PropDen - 1)
    /\ rng_state \in 0..(Pow2(RngBits) - 1)
    /\ part_calls \in {[t \in Threads |-> NoCall(f[t])] : f \in [Threads -> 1..MaxSeed]}

\* lines 50-56: keys, dict1_size, random.seed(random_seed), and the entry of
\* random.sample up to its first getrandbits call
PartSeed(t) ==
    LET c == part_calls[t]
        keys == KeyList(part_input)
        size == Dict1Size(Len(keys), part_prop)
    IN  /\ c.pc = "ready"
        /\ rng_state' = RngSeed(c.random_seed)
        /\ part_calls' = [part_calls EXCEPT ![t] =
              [c EXCEPT !.pc = IF size = 0 THEN "build" ELSE "sample",
                        !.dict1_size = size, !.pool = keys]]
        /\ UNCHANGED <<part_input, part_prop, opt_vars, run_vars, sim_vars>>

\* one getrandbits call of random.sample's _randbelow(n - i), and what
\* follows it up to the next call: a retry when r >= n - i, else the pick
PartSample(t) ==
    LET c == part_calls[t]
        m == Len(c.pool) - Len(c.dict1_keys)
        next == RngAdvance(rng_state)
        r == RngOutput(next, BitLength(m))
    IN  /\ c.pc = "sample"
        /\ rng_state' = next
        /\ part_calls' = [part_calls EXCEPT ![t] =
              IF r >= m THEN c
              ELSE [c EXCEPT !.dict1_keys = Append(c.dict1_keys, c.pool[r + 1]),
                             !.pool = PoolAfterPick(c.pool, r + 1, m),
                             !.pc = IF Len(c.dict1_keys) + 1 = c.dict1_size
                                    THEN "build" ELSE "sample"]]
        /\ UNCHANGED <<part_input, part_prop, opt_vars, run_vars, sim_vars>>

\* lines 59-65: dict1, dict2 and the return
PartReturn(t) ==
    LET c == part_calls[t]
    IN  /\ c.pc = "build"
        /\ part_calls' = [part_calls EXCEPT ![t] =
              [c EXCEPT !.pc = "done",
                        !.ret = <<DictOfKeys(part_input, c.dict1_keys),
                                  Dict2Of(part_input, c.dict1_keys)>>]]
        /\ UNCHANGED <<part_input, part_prop, rng_state, opt_vars, run_vars, sim_vars>>

PartNext ==
    \E t \in Threads : PartSeed(t) \/ PartSample(t) \/ PartReturn(t)

\* ========================================================== run_auctions
Procs == {1, 2}
LockIds == {1, 2}
CheckpointEvery == 10

\* pricing_mechanism values, as character sequences
DOP == <<"D", "O", "P">>
RSOP == <<"R", "S", "O", "P">>
RSKDE == <<"R", "S", "K", "D", "E">>
RSRDE == <<"R", "S", "R", "D", "E">>
RSRDE_MLE == RSRDE \o <<"_", "M", "L", "E">>
RSRDE_MAP_2 == RSRDE \o <<"_", "M", "A", "P", "_", "2">>
KDE == <<"K", "D", "E">>
MechNameSeq == <<DOP, RSOP, RSKDE, RSRDE_MLE, RSRDE_MAP_2, RSRDE, KDE>>
MechNames == Range(MechNameSeq)

\* str.startswith
startswith(str, prefix) ==
    Len(str) >= Len(prefix) /\ SubSeq(str, 1, Len(prefix)) = prefix

\* str.split(sep) for a one-character sep: the list of parts
RECURSIVE SplitFrom(_, _, _, _)
SplitFrom(str, sep, k, current) ==
    IF k > Len(str) THEN <<current>>
    ELSE IF str[k] = sep THEN <<current>> \o SplitFrom(str, sep, k + 1, <<>>)
    ELSE SplitFrom(str, sep, k + 1, Append(current, str[k]))
split(str, sep) == SplitFrom(str, sep, 1, <<>>)

\* an OnlineAuctionRandomInitialization of n rounds; b varies its content
MakeInitialization(n, b) ==
    [num_rounds |-> n, upper |-> MaxBid + b, is_upper_floated |-> (b = 1),
     sequence_auctions |->
        [k \in 1..n |-> [id |-> k - 1,
                         bids |-> <<<<1, (k + b) % (MaxBid + 1)>>, <<2, b>>>>]]]

None == [kind |-> "None"]
DOPAuction(init) == [kind |-> "DOPAuction", initialization |-> init]
RSOPAuction(init) == [kind |-> "RSOPAuction", initialization |-> init]
RSKDEAuction(init) == [kind |-> "RSKDEAuction", initialization |-> init]
RSRDEAuction(init, common_upper, is_upper_floated, training_history, method) ==
    [kind |-> "RSRDEAuction", initialization |-> init,
     common_upper |-> common_upper, is_upper_floated |-> is_upper_floated,
     training_history |-> training_history, RSRDE_method |-> method]
\* TrainingData(observations = [*bids.values()])
TrainingData(bids) == [observations |-> [k \in 1..Len(bids) |-> bids[k][2]]]

IsActiveAfter(i, num_rounds) == i > num_rounds \div 2
\* i >= floor(num_rounds / 2)
IsActive(i, num_rounds) == i >= num_rounds \div 2

HistoryKept(training_history, training_data) == training_history
\* training_history.append(training_data)
HistoryAppend(training_history, training_data) ==
    Append(training_history, training_data)

IsCheckpointRoundFirst(i) == i % CheckpointEvery = 0
\* i % 10 == 9
IsCheckpointRound(i) == i % CheckpointEvery = CheckpointEvery - 1

\* lines 23-49 for round i: the exception raised if any, the auction
\* appended to sequence_auctions, and training_history afterwards
RoundBody(pricing_mechanism, i, init, training_history) ==
    LET auction_initialization == init.sequence_auctions[i + 1]
        Ok(auction, history) ==
            [status |-> "ok", auction |-> auction, training_history |-> history]
        Raise(e) ==
            [status |-> e, auction |-> None, training_history |-> training_history]
    IN  IF pricing_mechanism = DOP
            THEN Ok(DOPAuction(auction_initialization), training_history)
        ELSE IF pricing_mechanism = RSOP
            THEN Ok(RSOPAuction(auction_initialization), training_history)
        ELSE IF pricing_mechanism = RSKDE
            THEN Ok(RSKDEAuction(auction_initialization), training_history)
        ELSE IF startswith(pricing_mechanism, RSRDE)
            THEN LET parts == split(pricing_mechanism, "_")
                     history == HistoryAppend(training_history,
                                   TrainingData(auction_initialization.bids))
                 IN  IF IsActive(i, init.num_rounds)
                     THEN IF Len(parts) < 2 THEN Raise("IndexError")
                          ELSE Ok(RSRDEAuction(auction_initialization, init.upper,
                                      init.is_upper_floated, training_history,
                                      parts[2]), history)
                     ELSE Ok(None, history)
        \* no branch binds `auction`: line 49 fails in the first round
        ELSE Raise("UnboundLocalError")

NoFile == [state |-> "absent", data |-> <<>>]

NotStarted(lock, pricing_mechanism) ==
    [pc |-> "start", lock |-> lock, pricing_mechanism |-> pricing_mechanism,
     i |-> 0, sequence_auctions |-> <<>>, training_history |-> <<>>,
     error |-> "none", acquired |-> 0, released |-> 0, printed |-> <<>>]
Unused == [NotStarted(1, DOP) EXCEPT !.pc = "unused"]

LockFreeAlways(l) == TRUE
\* a lock can be taken when nobody holds it
LockFree(l) == locks[l] = 0

\* line 14: with lock (entry)
Acquire(p) ==
    LET r == runs[p]
    IN  /\ ~killed
        /\ r.pc = "start"
        /\ LockFree(r.lock)
        /\ locks' = [locks EXCEPT ![r.lock] = p]
        /\ runs' = [runs EXCEPT ![p] = [r EXCEPT !.pc = "loop", !.acquired = @ + 1]]
        /\ UNCHANGED <<online_initialization, files, killed, opt_vars, part_vars, sim_vars>>

\* lines 21-51: one round up to the checkpoint test; an exception leaves the
\* with block, which releases the lock
Round(p) ==
    LET r == runs[p]
        body == RoundBody(r.pricing_mechanism, r.i, online_initialization,
                          r.training_history)
    IN  /\ ~killed
        /\ r.pc = "loop"
        /\ r.i < online_initialization.num_rounds
        /\ IF body.status = "ok"
           THEN /\ runs' = [runs EXCEPT ![p] =
                      [r EXCEPT !.sequence_auctions = Append(@, body.auction),
                                !.training_history = body.training_history,
                                !.pc = IF IsCheckpointRound(r.i) THEN "open" ELSE "loop",
                                !.i = IF IsCheckpointRound(r.i) THEN @ ELSE @ + 1]]
                /\ UNCHANGED locks
           ELSE /\ runs' = [runs EXCEPT ![p] =
                      [r EXCEPT !.pc = "failed", !.error = body.status,
                                !.released = @ + 1]]
                /\ locks' = [locks EXCEPT ![r.lock] = 0]
        /\ UNCHANGED <<online_initialization, files, killed, opt_vars, part_vars, sim_vars>>

\* line 53: open(..., "wb") truncates the file
OpenFile(p) ==
    LET r == runs[p]
    IN  /\ ~killed
        /\ r.pc = "open"
        /\ files' = [files EXCEPT ![r.pricing_mechanism] =
                        [state |-> "partial", data |-> <<>>]]
        /\ runs' = [runs EXCEPT ![p] = [r EXCEPT !.pc = "dump"]]
        /\ UNCHANGED <<online_initialization, locks, killed, opt_vars, part_vars, sim_vars>>

\* line 53: open fails (no data directory, no permission): OSError leaves
\* the with block
OpenFails(p) ==
    LET r == runs[p]
    IN  /\ ~killed
        /\ r.pc = "open"
        /\ runs' = [runs EXCEPT ![p] =
              [r EXCEPT !.pc = "failed", !.error = "OSError", !.released = @ + 1]]
        /\ locks' = [locks EXCEPT ![r.lock] = 0]
        /\ UNCHANGED <<online_initialization, files, killed, opt_vars, part_vars, sim_vars>>

\* lines 54-55: dill.dump, the close of the file, and the message
CloseFile(p) ==
    LET r == runs[p]
    IN  /\ ~killed
        /\ r.pc = "dump"
        /\ files' = [files EXCEPT ![r.pricing_mechanism] =
                        [state |-> "complete", data |-> r.sequence_auctions]]
        /\ runs' = [runs EXCEPT ![p] =
              [r EXCEPT !.pc = "loop", !.printed = Append(@, r.i + 1), !.i = @ + 1]]
        /\ UNCHANGED <<online_initialization, locks, killed, opt_vars, part_vars, sim_vars>>

\* lines 57-58 and the exit of the with block
Release(p) ==
    LET r == runs[p]
    IN  /\ ~killed
        /\ r.pc = "loop"
        /\ r.i = online_initialization.num_rounds
        /\ locks' = [locks EXCEPT ![r.lock] = 0]
        /\ runs' = [runs EXCEPT ![p] = [r EXCEPT !.pc = "done", !.released = @ + 1]]
        /\ UNCHANGED <<online_initialization, files, killed, opt_vars, part_vars, sim_vars>>

\* what storage may hold of a file whose dump was cut short: the bytes
\* flushed so far, here the first k outcomes for any k short of all
FlushedPrefixes(p) ==
    IF runs[p].pc = "dump" THEN 0..(Len(runs[p].sequence_auctions) - 1) ELSE {0}

\* the program is terminated from outside, wherever it is
Terminate ==
    /\ ~killed
    /\ \E p \in Procs : runs[p].pc \in {"start", "loop", "open", "dump"}
    /\ killed' = TRUE
    /\ \E k1 \in FlushedPrefixes(1), k2 \in FlushedPrefixes(2) :
          LET k == <<k1, k2>>
              Writer(name) == {p \in Procs : runs[p].pc = "dump"
                                             /\ runs[p].pricing_mechanism = name}
          IN  files' = [name \in MechNames |->
                 IF Writer(name) = {} THEN files[name]
                 ELSE LET p == CHOOSE q \in Writer(name) : TRUE
                      IN  [state |-> "partial",
                           data |-> SubSeq(runs[p].sequence_auctions, 1, k[p])]]
    /\ UNCHANGED <<online_initialization, locks, runs, opt_vars, part_vars, sim_vars>>

RunNext ==
    \/ \E p \in Procs :
          \/ Acquire(p)
          \/ Round(p)
          \/ OpenFile(p)
          \/ OpenFails(p)
          \/ CloseFile(p)
          \/ Release(p)
    \/ Terminate

\* one invocation, on any initialization and mechanism name
RunInit ==
    /\ online_initialization \in
          {MakeInitialization(n, b) : n \in 0..MaxRounds, b \in 0..1}
    /\ locks = [l \in LockIds |-> 0]
    /\ files = [name \in MechNames |-> NoFile]
    /\ killed = FALSE
    /\ runs \in {[p \in Procs |-> IF p = 1 THEN NotStarted(1, name) ELSE Unused] :
                    name \in MechNames}

\* two invocations side by side on one initialization, with different
\* mechanisms (so different checkpoint files), given one lock or two
PairInit ==
    /\ online_initialization \in
          {MakeInitialization(n, 0) : n \in 0..MaxPairRounds}
    /\ locks = [l \in LockIds |-> 0]
    /\ files = [name \in MechNames |-> NoFile]
    /\ killed = FALSE
    /\ runs \in {[p \in Procs |-> IF p = 1 THEN NotStarted(1, MechNameSeq[a])
                                  ELSE NotStarted(l, MechNameSeq[b])] :
                    l \in LockIds,
                    a \in 1..Len(MechNameSeq), b \in 1..Len(MechNameSeq)}
    /\ runs[1].pricing_mechanism # runs[2].pricing_mechanism

RunIdle ==
    /\ online_initialization = MakeInitialization(0, 0)
    /\ locks = [l \in LockIds |-> 0]
    /\ files = [name \in MechNames |-> NoFile]
    /\ killed = FALSE
    /\ runs = [p \in Procs |-> Unused]

\* =========================================================== simulations
Supported == {"truncnorm", "truncexpon", "truncpareto"}
\* names getattr(scipy.stats, dist_name, None) finds; "norm" is one of the
\* many distributions of scipy.stats that simulate_value_dists has no
\* branch for, "bogus" is no attribute of scipy.stats
InScipyStats == Supported \cup {"norm"}
DistNames == InScipyStats \cup {"bogus"}

\* random.uniform(a, b), by the two ends of its range
uniform(a, b) == {a, b}
\* a quotient x / y of the parameter derivations, y # 0
Quotient(x, y) == [num |-> x, den |-> y]

\* one parameter set of each family (lines 22-27, 34-35, 41-43), for the
\* values drawn; a zero scale makes the division raise
ParamsOf(dist_name, lower, upper, d1, d2) ==
    IF dist_name = "truncnorm"
    THEN [status |-> "ok",
          params |-> [a |-> lower, b |-> upper, loc |-> d1, scale |-> d2]]
    ELSE IF dist_name = "truncexpon"
    THEN IF d2 = 0 THEN [status |-> "ZeroDivisionError", params |-> <<>>]
         ELSE [status |-> "ok",
               params |-> [loc |-> lower, scale |-> d2,
                           b |-> Quotient(upper - lower, d2)]]
    ELSE IF d2 = 0 THEN [status |-> "ZeroDivisionError", params |-> <<>>]
         ELSE [status |-> "ok",
               params |-> [b |-> d1, scale |-> d2, loc |-> lower - d2,
                           c |-> Quotient(upper - (lower - d2), d2)]]

\* the first values drawn for a parameter set: loc of truncnorm, b of
\* truncpareto; truncexpon draws the scale only
FirstDraws(dist_name, upper) ==
    IF dist_name = "truncnorm" THEN uniform(0, 2 * upper)
    ELSE IF dist_name = "truncpareto" THEN uniform(2, upper)
    ELSE {0}

SimCall(fn, dist_name, upper, n, n_train) ==
    [pc |-> "start", fn |-> fn, dist_name |-> dist_name, lower |-> 1,
     upper |-> upper, max_N |-> n, max_N_train |-> n_train,
     phase |-> "none", N |-> 0, params_list |-> <<>>, done_lists |-> <<>>,
     generated |-> 0, error |-> "none", ret |-> <<>>]

SimInit ==
    sim \in {SimCall(fn, name, upper, n, n_train) :
                fn \in {"simulate_value_dists", "simulate_bids"},
                name \in DistNames, upper \in 2..MaxUpper,
                n \in 0..MaxN, n_train \in 0..MaxN}

SimIdle == sim = [SimCall("none", "truncnorm", 2, 0, 0) EXCEPT !.pc = "unused"]

\* the call is entered; simulate_bids (lines 73-76) first calls
\* simulate_value_dists for the training parameters
SimEnter ==
    /\ sim.pc = "start"
    /\ sim' = [sim EXCEPT !.pc = "dispatch",
                          !.phase = IF sim.fn = "simulate_bids" THEN "train" ELSE "only",
                          !.N = IF sim.fn = "simulate_bids" THEN sim.max_N_train
                                ELSE sim.max_N]
    /\ UNCHANGED <<opt_vars, part_vars, run_vars>>

\* lines 20, 31, 38, 46 of simulate_value_dists: the branch on dist_name;
\* when none matches, `return params_list` reads an unbound local
SvdDispatch ==
    /\ sim.pc = "dispatch"
    /\ sim' = IF sim.dist_name \in Supported
              THEN [sim EXCEPT !.pc = "generate", !.params_list = <<>>]
              ELSE [sim EXCEPT !.pc = "raised", !.error = "UnboundLocalError"]
    /\ UNCHANGED <<opt_vars, part_vars, run_vars>>

\* one parameter set is drawn and appended
SvdGenerate ==
    /\ sim.pc = "generate"
    /\ Len(sim.params_list) < sim.N
    /\ \E d1 \in FirstDraws(sim.dist_name, sim.upper), d2 \in uniform(0, 2 * sim.upper) :
          LET one == ParamsOf(sim.dist_name, sim.lower, sim.upper, d1, d2)
          IN  sim' = IF one.status = "ok"
                     THEN [sim EXCEPT !.params_list = Append(@, one.params),
                                      !.generated = @ + 1]
                     ELSE [sim EXCEPT !.pc = "raised", !.error = one.status]
    /\ UNCHANGED <<opt_vars, part_vars, run_vars>>

\* line 46: return params_list; simulate_bids goes on with its second call
\* (line 77) and then with line 78
SvdReturn ==
    /\ sim.pc = "generate"
    /\ Len(sim.params_list) = sim.N
    /\ sim' = IF sim.phase = "only"
              THEN [sim EXCEPT !.pc = "returned", !.ret = sim.params_list]
              ELSE IF sim.phase = "train"
              THEN [sim EXCEPT !.pc = "dispatch", !.phase = "test", !.N = sim.max_N,
                               !.done_lists = <<sim.params_list>>,
                               !.params_list = <<>>]
              ELSE [sim EXCEPT !.pc = "lookup",
                               !.done_lists = Append(@, sim.params_list)]
    /\ UNCHANGED <<opt_vars, part_vars, run_vars>>

\* lines 81-93 of simulate_bids: the lookup in scipy.stats, the bid
\* matrices (a row of variates per parameter set) and the ideals
BidsGenerate ==
    /\ sim.pc = "lookup"
    /\ sim' = IF sim.dist_name \notin InScipyStats
              THEN [sim EXCEPT !.pc = "raised", !.error = "ValueError"]
              ELSE LET train_params_list == sim.done_lists[1]
                       params_list == sim.done_lists[2]
                       Rows(l) == [k \in 1..Len(l) |-> [rvs |-> l[k]]]
                   IN  [sim EXCEPT !.pc = "returned",
                           !.ret = [dist_name |-> sim.dist_name, lower |-> sim.lower,
                                    upper |-> sim.upper, params_list |-> params_list,
                                    bids |-> Rows(params_list),
                                    train_bids |-> Rows(train_params_list),
                                    ideals |-> [k \in 1..Len(params_list) |->
                                                  [ideal |-> params_list[k]]]]]
    /\ UNCHANGED <<opt_vars, part_vars, run_vars>>

SimNext == SimEnter \/ SvdDispatch \/ SvdGenerate \/ SvdReturn \/ BidsGenerate

\* ================================================================ specs
vars == <<opt_vars, part_vars, run_vars, sim_vars>>

OptIdle ==
    /\ opt_pc = "ready"
    /\ opt_bids = <<>>
    /\ opt_ret = [status |-> "none", price |-> 0, max_bidder |-> 0, rank |-> 0]

PartIdle ==
    /\ part_input = <<>>
    /\ part_prop = 1
    /\ rng_state = 0
    /\ part_calls = [t \in Threads |-> [NoCall(1) EXCEPT !.pc = "unused"]]

\* calls of opt on every bid collection within the bounds
InitOpt == OptInit /\ PartIdle /\ RunIdle /\ SimIdle
SpecOpt == InitOpt /\ [][CallOpt]_vars

\* two threads, each calling dict_part once on the same dict
InitPart == PartInit /\ OptIdle /\ RunIdle /\ SimIdle
SpecPart == InitPart /\ [][PartNext]_vars

\* one invocation of run_auctions, which may be terminated at any point
InitRun == RunInit /\ OptIdle /\ PartIdle /\ SimIdle
SpecRun == InitRun /\ [][RunNext]_vars

\* two concurrent invocations of run_auctions
InitPair == PairInit /\ OptIdle /\ PartIdle /\ SimIdle
SpecPair == InitPair /\ [][RunNext]_vars

\* one call of simulate_value_dists or of simulate_bids
InitSim == SimInit /\ OptIdle /\ PartIdle /\ RunIdle
SpecSim == InitSim /\ [][SimNext]_vars

\* ----------------------------------------------------------- opt: claims
BidValues(bids) == {bids[i][2] : i \in 1..Len(bids)}
\* revenue of the uniform price p: p times the number of bidders with bid >= p
PriceRevenue(bids, p) == p * Cardinality({i \in 1..Len(bids) : bids[i][2] >= p})
\* the k-th largest bid value
KthLargest(bids, k) ==
    CHOOSE v \in BidValues(bids) :
        /\ Cardinality({i \in 1..Len(bids) : bids[i][2] > v}) < k
        /\ k <= Cardinality({i \in 1..Len(bids) : bids[i][2] >= v})
RankRevenue(bids, k) == k * KthLargest(bids, k)
MaxRankRevenue(bids) ==
    CHOOSE r \in {RankRevenue(bids, k) : k \in 1..Len(bids)} :
        \A k \in 1..Len(bids) : RankRevenue(bids, k) <= r
MaxRanks(bids) == {k \in 1..Len(bids) : RankRevenue(bids, k) = MaxRankRevenue(bids)}

\* C1: for a non-empty bid collection opt returns a price that is one of the
\* bids, and no bid value p of the input has a revenue p * |{bid >= p}|
\* above rank * price at the chosen rank.
C1_OptIsRevenueMaximal ==
    (opt_pc = "done" /\ Len(opt_bids) > 0) =>
        /\ opt_ret.status = "ok"
        /\ opt_ret.price \in BidValues(opt_bids)
        /\ \A p \in BidValues(opt_bids) :
              PriceRevenue(opt_bids, p) <= opt_ret.rank * opt_ret.price

\* the spec's example shape: the maximum is strictly inside, with a tie
\* among lower revenues (bids 4,3,3,1: revenues 4,6,9,4)
C1_Witness ==
    /\ opt_pc = "done"
    /\ Len(opt_bids) = 4
    /\ opt_ret.rank = 3
    /\ opt_ret.price = 3
    /\ RankRevenue(opt_bids, 1) = RankRevenue(opt_bids, 4)
    /\ RankRevenue(opt_bids, 1) < opt_ret.rank * opt_ret.price

\* C8: when several ranks of the descending order have the maximum revenue,
\* opt returns the bid of the smallest such rank, the highest of the
\* revenue-maximizing prices.
C8_TieTakesSmallestRank ==
    (opt_pc = "done" /\ Len(opt_bids) > 0) =>
        LET ties == MaxRanks(opt_bids)
            first == CHOOSE k \in ties : \A j \in ties : k <= j
        IN  /\ opt_ret.rank = first
            /\ opt_ret.price = KthLargest(opt_bids, first)
            /\ \A j \in ties : opt_ret.price >= KthLargest(opt_bids, j)

\* a tie between ranks of different price: bids 4 and 2 (revenues 4 and 4)
C8_Witness ==
    /\ opt_pc = "done"
    /\ Len(opt_bids) > 0
    /\ \E j, k \in MaxRanks(opt_bids) :
          /\ j < k
          /\ KthLargest(opt_bids, j) > KthLargest(opt_bids, k)
          /\ opt_ret.price = KthLargest(opt_bids, j)

\* ----------------------------------------------------- dict_part: claims
\* a dict as a mapping: its set of <<key, value>> items
Items(d) == Range(d)
\* floor(num / den) for num >= 0, den > 0
FloorDiv(num, den) == CHOOSE f \in 0..num : f * den <= num /\ num < (f + 1) * den

\* C4: a call of dict_part returns the pair (A, B) that its seed and input
\* determine (the pair of an uninterrupted call), whatever other threads
\* are doing with the shared generator at the same time.
C4_SeedDeterminesPartition ==
    \A t \in Threads :
        part_calls[t].pc = "done" =>
            LET alone == dict_part(part_input, part_calls[t].random_seed, part_prop)
            IN  /\ Items(part_calls[t].ret[1]) = Items(alone[1])
                /\ Items(part_calls[t].ret[2]) = Items(alone[2])

\* C9: the two dicts returned by dict_part partition the input keys, the
\* first has floor(p * |keys|) keys, and every key keeps its input value.
C9_PartitionIsExact ==
    \A t \in Threads :
        part_calls[t].pc = "done" =>
            LET A == part_calls[t].ret[1]
                B == part_calls[t].ret[2]
            IN  /\ Keys(A) \cup Keys(B) = Keys(part_input)
                /\ Keys(A) \cap Keys(B) = {}
                /\ Cardinality(Keys(A)) = FloorDiv(Len(part_input) * part_prop, PropDen)
                /\ Len(A) = Cardinality(Keys(A))
                /\ Len(B) = Cardinality(Keys(B))
                /\ Items(A) \cup Items(B) = Items(part_input)

\* both calls returned, both parts hold keys, values differ, and the
\* proportion does not divide the size evenly
C9_Witness ==
    /\ \A t \in Threads : part_calls[t].pc = "done"
    /\ \E t \in Threads : Len(part_calls[t].ret[1]) >= 2 /\ Len(part_calls[t].ret[2]) >= 1
    /\ (Len(part_input) * part_prop) % PropDen # 0
    /\ \E i, j \in 1..Len(part_input) : part_input[i][2] # part_input[j][2]

\* -------------------------------------------------- run_auctions: claims
Started(p) == runs[p].pc # "unused"
HistoryTrained(p) == Started(p) /\ startswith(runs[p].pricing_mechanism, RSRDE)
FileOf(p) == files[runs[p].pricing_mechanism]
IsPrefix(s, t) == Len(s) <= Len(t) /\ s = SubSeq(t, 1, Len(s))
\* the raw bid observations of round k (counted from 1)
ObservationsOf(k) ==
    LET bids == online_initialization.sequence_auctions[k].bids
    IN  [observations |-> [j \in 1..Len(bids) |-> bids[j][2]]]

\* C2: once the run is terminated, the checkpoint file is absent or a
\* complete snapshot of a prefix of the outcomes, lacking at most 9 of the
\* rounds completed before the termination.
C2_CheckpointSurvivesTermination ==
    killed =>
        \A p \in Procs : Started(p) =>
            /\ FileOf(p).state \in {"absent", "complete"}
            /\ IsPrefix(FileOf(p).data, runs[p].sequence_auctions)
            /\ runs[p].i - Len(FileOf(p).data) <= CheckpointEvery - 1

\* an invocation is inside its rounds from the acquire to the release
InRounds(p) == runs[p].pc \in {"loop", "open", "dump"}
C3_LockState ==
    \A p \in Procs : Started(p) =>
        LET r == runs[p]
        IN  /\ r.acquired <= 1 /\ r.released <= r.acquired
            /\ r.pc = "start" =>
                  r.acquired = 0 /\ r.i = 0 /\ r.sequence_auctions = <<>>
            /\ InRounds(p) =>
                  r.acquired = 1 /\ r.released = 0 /\ locks[r.lock] = p
            /\ r.pc = "done" =>
                  /\ r.acquired = 1 /\ r.released = 1
                  /\ r.i = online_initialization.num_rounds
                  /\ Len(r.sequence_auctions) = online_initialization.num_rounds
            /\ r.pc = "failed" => r.acquired = 1 /\ r.released = 1
            /\ \A q \in Procs \ {p} :
                  (Started(q) /\ runs[q].lock = r.lock) => ~(InRounds(p) /\ InRounds(q))
\* a round or a checkpoint write of p is a step taken with the lock held,
\* while every other invocation on that lock is before its first round or
\* after its last
C3_LockStep ==
    \A p \in Procs :
        (Started(p) /\ (runs'[p].sequence_auctions # runs[p].sequence_auctions
                        \/ runs'[p].i # runs[p].i
                        \/ FileOf(p)' # FileOf(p))) =>
            /\ locks[runs[p].lock] = p
            /\ locks'[runs[p].lock] = p
            /\ \A q \in Procs \ {p} :
                  (Started(q) /\ runs[q].lock = runs[p].lock) =>
                      \/ runs[q].pc = "start" /\ runs[q].sequence_auctions = <<>>
                      \/ runs[q].pc \in {"done", "failed"}
\* C3: the lock is acquired once before round 0, held without release
\* through every round and checkpoint write, and released once at the end;
\* the rounds of two invocations given the same lock never interleave.
C3_LockHeldAcrossRun == []C3_LockState /\ [][C3_LockStep]_vars

\* both invocations ran to the end on one lock, each with a checkpoint
C3_Witness ==
    /\ \A p \in Procs : runs[p].pc = "done" /\ Len(runs[p].printed) >= 1
    /\ runs[1].lock = runs[2].lock
    /\ ~killed

\* the sub-method a history-trained mechanism name stands for
MethodNamed(name) ==
    IF name = RSRDE_MLE THEN <<"M", "L", "E">>
    ELSE IF name = RSRDE_MAP_2 THEN <<"M", "A", "P">>
    ELSE <<>>

\* C5: with a history-trained mechanism the outcome of round i is None for
\* i < floor(num_rounds / 2), and from there on a mechanism instantiated
\* with the history accumulated so far, the common upper bound and the
\* sub-method of the mechanism name.
C5_WarmUpThenTrained ==
    \A p \in Procs : HistoryTrained(p) =>
        \A k \in 1..Len(runs[p].sequence_auctions) :
            LET auction == runs[p].sequence_auctions[k]
                i == k - 1
            IN  IF 2 * (i + 1) <= online_initialization.num_rounds
                THEN auction = None
                ELSE /\ auction.kind = "RSRDEAuction"
                     /\ auction.initialization = online_initialization.sequence_auctions[k]
                     /\ auction.common_upper = online_initialization.upper
                     /\ auction.is_upper_floated = online_initialization.is_upper_floated
                     /\ auction.training_history = [j \in 1..i |-> ObservationsOf(j)]
                     /\ auction.RSRDE_method = MethodNamed(runs[p].pricing_mechanism)

\* a finished run of an odd number of rounds: None up to the middle, then
\* trained mechanisms
C5_Witness ==
    /\ runs[1].pc = "done"
    /\ runs[1].pricing_mechanism = RSRDE_MAP_2
    /\ online_initialization.num_rounds % 2 = 1
    /\ online_initialization.num_rounds >= 5
    /\ runs[1].sequence_auctions[online_initialization.num_rounds \div 2] = None
    /\ runs[1].sequence_auctions[online_initialization.num_rounds \div 2 + 1].kind
          = "RSRDEAuction"

\* the history is the observations of the processed rounds, in order
C6_HistoryState ==
    \A p \in Procs : HistoryTrained(p) =>
        /\ runs[p].training_history =
              [k \in 1..Len(runs[p].sequence_auctions) |-> ObservationsOf(k)]
        /\ runs[p].pc \in {"loop", "done"} =>
              Len(runs[p].training_history) = runs[p].i
\* a step leaves the history as it is or appends one entry
C6_HistoryStep ==
    \A p \in Procs :
        LET old == runs[p].training_history
            new == runs'[p].training_history
        IN  \/ new = old
            \/ Len(new) = Len(old) + 1 /\ SubSeq(new, 1, Len(old)) = old
\* C6: with a history-trained mechanism the training history after i
\* processed rounds is the observations of rounds 0..i-1 in order; each
\* round appends exactly one entry and none is ever removed or changed.
C6_HistoryGrowsByOne == []C6_HistoryState /\ [][C6_HistoryStep]_vars

C6_Witness ==
    /\ runs[1].pc = "done"
    /\ HistoryTrained(1)
    /\ online_initialization.num_rounds >= 11
    /\ Len(runs[1].training_history) = online_initialization.num_rounds

\* C7: between rounds the checkpoints written are exactly those after the
\* rounds r (counted from 1) that are multiples of 10, the file holds the
\* outcomes of rounds 1..r of the last of them, and a run of 25 rounds
\* writes after rounds 10 and 20 only.
C7_CheckpointCadence ==
    \A p \in Procs : Started(p) =>
        LET r == runs[p]
            written == r.i \div CheckpointEvery
        IN  /\ r.pc \in {"open", "dump"} => (r.i + 1) % CheckpointEvery = 0
            /\ (r.pc \in {"loop", "done"}) =>
                  /\ r.printed = [k \in 1..written |-> CheckpointEvery * k]
                  /\ IF written = 0 THEN FileOf(p) = NoFile
                     ELSE /\ FileOf(p).state = "complete"
                          /\ FileOf(p).data =
                                SubSeq(r.sequence_auctions, 1, CheckpointEvery * written)
            /\ (r.pc = "done" /\ online_initialization.num_rounds = 25) =>
                  r.printed = <<10, 20>>

C7_Witness ==
    /\ runs[1].pc = "done"
    /\ online_initialization.num_rounds = 25
    /\ runs[1].printed = <<10, 20>>
    /\ Len(FileOf(1).data) = 20

\* ---------------------------------------------------- simulations: claims
\* C10: a call with a family tag outside the three supported ones ends in a
\* descriptive error about the distribution (the ValueError the code has for
\* it), raised before any parameter set or bid is generated.
C10_UnknownFamilyRejected ==
    (sim.pc \in {"raised", "returned"} /\ sim.dist_name \notin Supported) =>
        /\ sim.pc = "raised"
        /\ sim.error = "ValueError"
        /\ sim.generated = 0
        /\ sim.ret = <<>>
====
